---- MODULE Spec2Model ----
(***************************************************************************)
(* flair-sagemaker-samples: the token counting batch job                   *)
(* (processing_sources/processing.py) and the content-type dispatch of the *)
(* two serving variants (serving_sources/sequence_tagger_serving.py and    *)
(* source_dir/inference.py).                                               *)
(*                                                                         *)
(* Text is a sequence of one-character strings, so that split(','),        *)
(* replace('\n',''), count() and lower() are computed character by         *)
(* character as Python computes them.                                      *)
(***************************************************************************)
EXTENDS Integers, Sequences, FiniteSets, TLC

VARIABLES
    argv,          \* values given to --tokens on the command line: <<>> or <<text>>
    inputDirOk,    \* args.input_dir exists and can be listed
    tree,          \* the files under args.input_dir: path -> content
    cwd,           \* the process's current working directory
    pc,            \* position of the run in processing.py
    tokens,        \* processing.py:7
    token_counts,  \* processing.py:10, an insertion-ordered dict: sequence of [k, v]
    files,         \* processing.py:12-14
    idx,           \* position of the loop of processing.py:16 in files (1-based)
    walked,        \* os.walk has enumerated args.input_dir
    opened,        \* paths opened for reading so far, in order
    written,       \* contents written to token_counts.json by this run
    error,         \* the exception that ended the run, "none" if none
    run,           \* number of the run (SpecRerun)
    prevWritten,   \* what the previous run wrote (SpecRerun)
    call,          \* serving: the hook call in progress (SpecServe)
    result         \* serving: outcome of the call (SpecServe)

procVars  == <<argv, inputDirOk, tree, cwd, pc, tokens, token_counts, files, idx,
               walked, opened, written, error>>
rerunVars == <<run, prevWritten>>
serveVars == <<call, result>>
vars      == <<procVars, rerunVars, serveVars>>

----------------------------------------------------------------------------
(* Bounds of the model *)

MaxLen    == 3   \* longest file content
MaxArgLen == 3   \* longest --tokens value

NL    == "\n"
Comma == ","

Strs(alphabet, n) == UNION {[1..k -> alphabet] : k \in 0..n}

Contents  == Strs({"a", NL}, MaxLen)
TokenArgs == Strs({"a", Comma}, MaxArgLen)

\* The input directory "in" with a subdirectory "sub"; at most two of the three
\* places hold a file.
Paths   == {<<"in", "f">>, <<"in", "g">>, <<"in/sub", "f">>}
Layouts == {S \in SUBSET Paths : S # Paths}
Trees   == UNION {[S -> Contents] : S \in Layouts}
Cwds    == {"in", "in/sub", "elsewhere"}

Range(s) == {s[i] : i \in DOMAIN s}

RECURSIVE SumOver(_, _)
SumOver(S, f) ==
    IF S = {} THEN 0
    ELSE LET x == CHOOSE x \in S : TRUE IN f[x] + SumOver(S \ {x}, f)

Perms(S) == {s \in [1..Cardinality(S) -> S] : Range(s) = S}

----------------------------------------------------------------------------
(* Python's str and dict operations used by main *)

\* str.split(',')
RECURSIVE Split(_)
Split(s) ==
    IF \E i \in 1..Len(s) : s[i] = Comma
    THEN LET i == CHOOSE i \in 1..Len(s) :
                      s[i] = Comma /\ \A j \in 1..(i-1) : s[j] # Comma
         IN <<SubSeq(s, 1, i-1)>> \o Split(SubSeq(s, i+1, Len(s)))
    ELSE <<s>>

\* str.replace('\n', '')
RemoveNewlines(s) == SelectSeq(s, LAMBDA c : c # NL)

\* str.count(sub): non-overlapping occurrences scanning left to right; the
\* empty string occurs len(s)+1 times.
RECURSIVE CountFrom(_, _, _)
CountFrom(s, t, i) ==
    IF i + Len(t) - 1 > Len(s) THEN 0
    ELSE IF SubSeq(s, i, i + Len(t) - 1) = t
         THEN 1 + CountFrom(s, t, i + Len(t))
         ELSE CountFrom(s, t, i + 1)

Count(s, t) == IF t = <<>> THEN Len(s) + 1 ELSE CountFrom(s, t, 1)

DictHas(d, k) == \E i \in DOMAIN d : d[i].k = k
DictGet(d, k) == d[CHOOSE i \in DOMAIN d : d[i].k = k].v
\* d[k] = v: an existing key keeps its position
DictSet(d, k, v) ==
    IF DictHas(d, k)
    THEN [i \in DOMAIN d |-> IF d[i].k = k THEN [k |-> k, v |-> v] ELSE d[i]]
    ELSE Append(d, [k |-> k, v |-> v])

RECURSIVE DictComp(_, _)
DictComp(toks, d) ==
    IF toks = <<>> THEN d
    ELSE DictComp(Tail(toks), DictSet(d, Head(toks), 0))

\* a list of pairs instead of a dict: duplicates are kept
TokenCountsInitList(toks) == [i \in DOMAIN toks |-> [k |-> toks[i], v |-> 0]]

\* {token : 0 for token in tokens}
TokenCountsInit(toks) == DictComp(toks, <<>>)

RECURSIVE AddFrom(_, _, _, _)
AddFrom(items, d, s, i) ==
    IF i > Len(items) THEN d
    ELSE LET k == items[i].k
         IN AddFrom(items, DictSet(d, k, DictGet(d, k) + Count(s, k)), s, i + 1)

\* "=" in place of "+=": the last file scanned wins
SetCounts(tc, s) == [i \in DOMAIN tc |-> [k |-> tc[i].k, v |-> Count(s, tc[i].k)]]

\* for k, v in token_counts.items(): token_counts[k] += file_string.count(k)
AddCounts(tc, s) == AddFrom(tc, tc, s, 1)

\* json.dump(token_counts, file): the object's members, in the dict's order
JsonDump(tc) == [i \in DOMAIN tc |-> <<tc[i].k, tc[i].v>>]

\* default="" in place of required=True
ParseTokensArgDefaultEmpty(a) ==
    IF a = <<>> THEN [ok |-> TRUE, tokens |-> <<>>]
    ELSE [ok |-> TRUE, tokens |-> a[1]]

\* parser.add_argument('--tokens', type=str, required=True)
ParseTokensArg(a) ==
    IF a = <<>> THEN [ok |-> FALSE, tokens |-> <<>>]
    ELSE [ok |-> TRUE, tokens |-> a[1]]

\* os.walk(args.input_dir): top-down, each directory's filenames in the order the
\* file system yields them; an error listing a directory is ignored (onerror=None)
FileNames(dir) == {p[2] : p \in {q \in DOMAIN tree : q[1] = dir}}
WalkOrders ==
    IF inputDirOk
    THEN {a \o b : a \in Perms(FileNames("in")), b \in Perms(FileNames("in/sub"))}
    ELSE {<<>>}

----------------------------------------------------------------------------
(* The serving hooks: content-type dispatch *)

LowerLetters == <<"a","b","c","d","e","f","g","h","i","j","k","l","m",
                  "n","o","p","q","r","s","t","u","v","w","x","y","z">>
UpperLetters == <<"A","B","C","D","E","F","G","H","I","J","K","L","M",
                  "N","O","P","Q","R","S","T","U","V","W","X","Y","Z">>

LowerChar(c) ==
    IF \E i \in DOMAIN UpperLetters : UpperLetters[i] = c
    THEN LowerLetters[CHOOSE i \in DOMAIN UpperLetters : UpperLetters[i] = c]
    ELSE c
UpperChar(c) ==
    IF \E i \in DOMAIN LowerLetters : LowerLetters[i] = c
    THEN UpperLetters[CHOOSE i \in DOMAIN LowerLetters : LowerLetters[i] = c]
    ELSE c

\* str.lower()
Lower(s) == [i \in DOMAIN s |-> LowerChar(s[i])]
Upper(s) == [i \in DOMAIN s |-> UpperChar(s[i])]
Capitalized(s) == [i \in DOMAIN s |-> IF i = 1 THEN UpperChar(s[i]) ELSE s[i]]

JSON_CONTENT_TYPE   == <<"a","p","p","l","i","c","a","t","i","o","n","/","j","s","o","n">>
CSV_CONTENT_TYPE    == <<"t","e","x","t","/","c","s","v">>
PICKLE_CONTENT_TYPE == <<"p","i","c","k","l","e">>

\* content types a client may send: the three the code names, others it does
\* not, and each in several spellings of case
BaseContentTypes ==
    { JSON_CONTENT_TYPE, CSV_CONTENT_TYPE, PICKLE_CONTENT_TYPE,
      <<"t","e","x","t","/","x","m","l">>,
      <<"j","s","o","n">>,
      <<"c","s","v">>,
      JSON_CONTENT_TYPE \o <<";">>,
      <<>> }
ContentTypes ==
    BaseContentTypes \cup {Upper(c) : c \in BaseContentTypes}
                     \cup {Capitalized(c) : c \in BaseContentTypes}

Return(v) == [kind |-> "return", what |-> v]
Raise(e)  == [kind |-> "raise", what |-> e]

NoCall   == [module |-> "none", hook |-> "none", content_type |-> <<>>,
             body_ok |-> TRUE, lib_ok |-> TRUE]
NoResult == [kind |-> "none", what |-> "none"]

\* sequence_tagger_serving.py, input_fn. body_ok: json.loads accepts the body;
\* lib_ok: Sentence(...) does not raise. A caught failure leaves input_object
\* unbound, and the return statement raises UnboundLocalError.
tagger_input_fn(body_ok, lib_ok, request_content_type) ==
    IF Lower(request_content_type) = JSON_CONTENT_TYPE
    THEN IF ~body_ok THEN Raise("JSONDecodeError")
         ELSE IF ~lib_ok THEN Raise("UnboundLocalError")
         ELSE Return("Sentence")
    ELSE Raise("ValueError")

\* sequence_tagger_serving.py, output_fn. The message of the else branch names
\* request_content_type, which is neither a parameter nor a global of the module.
tagger_output_fn(lib_ok, response_content_type) ==
    IF Lower(response_content_type) = PICKLE_CONTENT_TYPE
    THEN IF ~lib_ok THEN Raise("UnboundLocalError")
         ELSE Return("pickle")
    ELSE Raise("NameError")

\* inference.py, input_fn
inference_input_fn(body_ok, lib_ok, content_type) ==
    IF Lower(content_type) = JSON_CONTENT_TYPE
    THEN IF ~body_ok THEN Raise("JSONDecodeError")
         ELSE IF ~lib_ok THEN Raise("UnboundLocalError")
         ELSE Return("Sentence")
    ELSE IF Lower(content_type) = CSV_CONTENT_TYPE
    THEN IF ~lib_ok THEN Raise("UnboundLocalError")
         ELSE Return("Sentence")
    ELSE Raise("ValueError")

\* inference.py, output_fn
inference_output_fn(lib_ok, accept) ==
    IF Lower(accept) = PICKLE_CONTENT_TYPE
    THEN IF ~lib_ok THEN Raise("UnboundLocalError")
         ELSE Return("pickle")
    ELSE IF Lower(accept) = CSV_CONTENT_TYPE
    THEN Return("str")
    ELSE IF Lower(accept) = JSON_CONTENT_TYPE
    THEN Return("json")
    ELSE Raise("ValueError")

----------------------------------------------------------------------------
(* The run of processing.py *)

ProcIdle ==
    /\ pc = "start"
    /\ tokens = <<>>
    /\ token_counts = <<>>
    /\ files = <<>>
    /\ idx = 1
    /\ walked = FALSE
    /\ opened = <<>>
    /\ written = <<>>
    /\ error = "none"

Init ==
    /\ argv \in {<<>>} \cup {<<a>> : a \in TokenArgs}
    /\ inputDirOk \in BOOLEAN
    /\ tree \in Trees
    /\ inputDirOk = FALSE => tree = <<>>
    /\ cwd \in Cwds
    /\ inputDirOk = FALSE => cwd = "elsewhere"
    /\ ProcIdle
    /\ run = 1
    /\ prevWritten = <<>>
    /\ call = NoCall
    /\ result = NoResult

\* processing.py:34-38
ParseArgs ==
    /\ pc = "start"
    /\ LET r == ParseTokensArg(argv)
       IN IF r.ok
          THEN /\ pc' = "main"
               /\ error' = error
          ELSE /\ pc' = "usage"         \* parser.error: usage message, exit status 2
               /\ error' = "SystemExit"
    /\ UNCHANGED <<argv, inputDirOk, tree, cwd, tokens, token_counts, files, idx,
                   walked, opened, written, rerunVars, serveVars>>

\* processing.py:7-10
InitTable ==
    /\ pc = "main"
    /\ tokens' = Split(ParseTokensArg(argv).tokens)
    /\ token_counts' = TokenCountsInit(tokens')
    /\ pc' = "walk"
    /\ UNCHANGED <<argv, inputDirOk, tree, cwd, files, idx, walked, opened,
                   written, error, rerunVars, serveVars>>

\* processing.py:12-14
Walk ==
    /\ pc = "walk"
    /\ \E order \in WalkOrders :
          /\ files' = order
          /\ pc' = IF order = <<>> THEN "write" ELSE "scan"
    /\ walked' = TRUE
    /\ idx' = 1
    /\ UNCHANGED <<argv, inputDirOk, tree, cwd, tokens, token_counts, opened,
                   written, error, rerunVars, serveVars>>

\* except: continue in place of the propagating exception
ScanFileSkip ==
    /\ pc = "scan"
    /\ LET p == <<cwd, files[idx]>>
       IN \/ /\ p \in DOMAIN tree
             /\ opened' = Append(opened, p)
             /\ token_counts' = AddCounts(token_counts, RemoveNewlines(tree[p]))
             /\ error' = error
          \/ /\ p \notin DOMAIN tree
             /\ error' = "FileNotFoundError"
             /\ UNCHANGED <<opened, token_counts>>
          \/ /\ p \in DOMAIN tree
             /\ error' = "ReadError"
             /\ UNCHANGED <<opened, token_counts>>
    /\ idx' = idx + 1
    /\ pc' = IF idx = Len(files) THEN "write" ELSE "scan"
    /\ UNCHANGED <<argv, inputDirOk, tree, cwd, tokens, files, walked, written,
                   rerunVars, serveVars>>

\* processing.py:16-22, one iteration: open(file) resolves the bare file name
\* against the current working directory
ScanFile ==
    /\ pc = "scan"
    /\ LET p == <<cwd, files[idx]>>
       IN \/ /\ p \in DOMAIN tree
             /\ opened' = Append(opened, p)
             /\ token_counts' = AddCounts(token_counts, RemoveNewlines(tree[p]))
             /\ idx' = idx + 1
             /\ pc' = IF idx = Len(files) THEN "write" ELSE "scan"
             /\ error' = error
          \/ /\ p \notin DOMAIN tree
             /\ pc' = "failed"
             /\ error' = "FileNotFoundError"
             /\ UNCHANGED <<opened, token_counts, idx>>
          \/ /\ p \in DOMAIN tree      \* no permission, or not decodable as text
             /\ pc' = "failed"
             /\ error' = "ReadError"
             /\ UNCHANGED <<opened, token_counts, idx>>
    /\ UNCHANGED <<argv, inputDirOk, tree, cwd, tokens, files, walked, written,
                   rerunVars, serveVars>>

\* processing.py:24-28
WriteOutput ==
    /\ pc = "write"
    /\ \/ /\ written' = Append(written, JsonDump(token_counts))
          /\ pc' = "done"
          /\ error' = error
       \/ /\ pc' = "failed"         \* args.output_dir missing or not writable
          /\ error' = "WriteError"
          /\ written' = written
    /\ UNCHANGED <<argv, inputDirOk, tree, cwd, tokens, token_counts, files, idx,
                   walked, opened, rerunVars, serveVars>>

Next == ParseArgs \/ InitTable \/ Walk \/ ScanFile \/ WriteOutput

Spec == Init /\ [][Next]_vars

----------------------------------------------------------------------------
(* A second run of processing.py with the same --tokens value and the same  *)
(* files under the input directory; the order in which the file system      *)
(* yields the names and the directory the process is started in are the     *)
(* second run's own.                                                        *)

Rerun ==
    /\ pc \in {"done", "failed"}
    /\ run = 1
    /\ run' = 2
    /\ prevWritten' = written
    /\ cwd' \in (IF inputDirOk THEN Cwds ELSE {"elsewhere"})
    /\ pc' = "start"
    /\ tokens' = <<>>
    /\ token_counts' = <<>>
    /\ files' = <<>>
    /\ idx' = 1
    /\ walked' = FALSE
    /\ opened' = <<>>
    /\ written' = <<>>
    /\ error' = "none"
    /\ UNCHANGED <<argv, inputDirOk, tree, serveVars>>

NextRerun == ParseArgs \/ InitTable \/ Walk \/ ScanFile \/ WriteOutput \/ Rerun

SpecRerun == Init /\ [][NextRerun]_vars

----------------------------------------------------------------------------
(* One call of a serving hook *)

InitServe ==
    /\ argv = <<>>
    /\ inputDirOk = FALSE
    /\ tree = <<>>
    /\ cwd = "elsewhere"
    /\ ProcIdle
    /\ run = 1
    /\ prevWritten = <<>>
    /\ call \in [module : {"sequence_tagger_serving", "inference"},
                 hook : {"input_fn", "output_fn"},
                 content_type : ContentTypes,
                 body_ok : BOOLEAN,
                 lib_ok : BOOLEAN]
    /\ result = NoResult

Called(module, hook) ==
    /\ call.module = module
    /\ call.hook = hook
    /\ result = NoResult

TaggerInput ==
    /\ Called("sequence_tagger_serving", "input_fn")
    /\ result' = tagger_input_fn(call.body_ok, call.lib_ok, call.content_type)
    /\ UNCHANGED <<call, procVars, rerunVars>>

TaggerOutput ==
    /\ Called("sequence_tagger_serving", "output_fn")
    /\ result' = tagger_output_fn(call.lib_ok, call.content_type)
    /\ UNCHANGED <<call, procVars, rerunVars>>

InferenceInput ==
    /\ Called("inference", "input_fn")
    /\ result' = inference_input_fn(call.body_ok, call.lib_ok, call.content_type)
    /\ UNCHANGED <<call, procVars, rerunVars>>

InferenceOutput ==
    /\ Called("inference", "output_fn")
    /\ result' = inference_output_fn(call.lib_ok, call.content_type)
    /\ UNCHANGED <<call, procVars, rerunVars>>

NextServe == TaggerInput \/ TaggerOutput \/ InferenceInput \/ InferenceOutput

SpecServe == InitServe /\ [][NextServe]_vars

----------------------------------------------------------------------------
(* Properties of the run of processing.py *)

Done   == pc = "done"
Output == written[1]

\* occurrences of token t over the files under the input directory
TreeTotal(t) ==
    SumOver(DOMAIN tree, [p \in DOMAIN tree |-> Count(RemoveNewlines(tree[p]), t)])

\* occurrences of token t over the reads the run made
ScanTotal(t) ==
    SumOver(DOMAIN opened,
            [i \in DOMAIN opened |-> Count(RemoveNewlines(tree[opened[i]]), t)])

ReadFailed == error \in {"FileNotFoundError", "ReadError"}

\* C1: when main completes, the value written for each token is the sum, over
\* every file under the input directory, of the token's non-overlapping
\* occurrences in the file's content with the newlines deleted.
C1_CountsMatchTree ==
    Done => /\ \A t \in Range(tokens) : \E i \in DOMAIN Output : Output[i][1] = t
            /\ \A i \in DOMAIN Output : Output[i][2] = TreeTotal(Output[i][1])

\* C2: when main completes, the files it opened are exactly the files under the
\* input directory, subdirectories included, each at its own location.
C2_EveryTreeFileOpened ==
    Done => /\ Range(opened) = DOMAIN tree
            /\ Len(opened) = Cardinality(DOMAIN tree)

\* C3: once opening or reading a file has failed, the run has stopped at that
\* file: it is in its failed state, no file after the failing one was opened,
\* and nothing was written to token_counts.json.
C3_ReadFailureAborts ==
    ReadFailed => /\ pc = "failed"
                  /\ written = <<>>
                  /\ idx \in DOMAIN files
                  /\ Len(opened) = idx - 1

C3_Witness ==
    /\ ReadFailed
    /\ pc = "failed"
    /\ idx = 2
    /\ Len(files) = 2
    /\ \E i \in DOMAIN token_counts : token_counts[i].v > 0

\* C4: a run whose input directory does not exist or cannot be listed never
\* completes successfully.
C4_MissingInputDirFails == ~inputDirOk => ~Done

\* C5: a run whose token list holds an empty token never completes with an
\* output that has an entry keyed by the empty string.
C5_EmptyTokenRejected ==
    (argv # <<>> /\ <<>> \in Range(Split(argv[1])))
        => ~(Done /\ \E i \in DOMAIN Output : Output[i][1] = <<>>)

\* C6: when main completes, every supplied token, however often it appears in
\* the list, has exactly one key in the output, and its value is the token's
\* occurrences summed once per file read.
C6_DuplicateTokensCollapse ==
    Done => \A t \in Range(tokens) :
                /\ Cardinality({i \in DOMAIN Output : Output[i][1] = t}) = 1
                /\ \A i \in DOMAIN Output : Output[i][1] = t => Output[i][2] = ScanTotal(t)

C6_Witness ==
    /\ Done
    /\ \E i, j \in DOMAIN tokens : i # j /\ tokens[i] = tokens[j] /\ ScanTotal(tokens[i]) > 0
    /\ Len(opened) = 2

\* C8: when --tokens is missing, the run never enumerates a directory, opens an
\* input file or writes the output file: it stops in the argument parser.
C8_MissingTokensNoIO ==
    argv = <<>> => /\ pc \in {"start", "usage"}
                   /\ ~walked
                   /\ opened = <<>>
                   /\ written = <<>>

C8_Witness == argv = <<>> /\ pc = "usage" /\ error = "SystemExit"

TableInitialised == pc \in {"walk", "scan", "write", "done", "failed"}

C9_TableInv ==
    TableInitialised =>
        /\ {token_counts[i].k : i \in DOMAIN token_counts} = Range(tokens)
        /\ \A i \in DOMAIN token_counts : token_counts[i].v \in Nat
        /\ pc = "walk" => \A i \in DOMAIN token_counts : token_counts[i].v = 0

C9_TableStep ==
    TableInitialised =>
        /\ DOMAIN token_counts' = DOMAIN token_counts
        /\ \A i \in DOMAIN token_counts :
              /\ token_counts'[i].k = token_counts[i].k
              /\ token_counts'[i].v >= token_counts[i].v

\* C9: from its initialisation on, the count table's keys are exactly the
\* supplied tokens, every count starts at zero, is a natural number, and no
\* step of the run removes or adds a key or lowers a count.
C9_TableMonotone == []C9_TableInv /\ [][C9_TableStep]_vars

C9_Witness ==
    /\ pc = "scan"
    /\ idx = 2
    /\ \E i \in DOMAIN token_counts : token_counts[i].v > 1

\* C7: two runs with the same token list and the same file contents that both
\* write token_counts.json write the same content, whatever the order of
\* enumeration, and a run's output lists the keys in the order the tokens were
\* supplied.
C7_OutputFunctionOfInputs ==
    /\ (run = 2 /\ Done /\ prevWritten # <<>>) => written = prevWritten
    /\ Done => [i \in DOMAIN Output |-> Output[i][1]]
                   = [i \in DOMAIN TokenCountsInit(tokens) |-> TokenCountsInit(tokens)[i].k]

\* The content types each hook supports, from the hooks' documentation and the
\* module's constants.
Supported(module, hook) ==
    IF module = "sequence_tagger_serving"
    THEN IF hook = "input_fn" THEN {JSON_CONTENT_TYPE} ELSE {PICKLE_CONTENT_TYPE}
    ELSE IF hook = "input_fn" THEN {JSON_CONTENT_TYPE, CSV_CONTENT_TYPE}
         ELSE {JSON_CONTENT_TYPE, CSV_CONTENT_TYPE, PICKLE_CONTENT_TYPE}

\* C10: in both serving variants, input_fn and output_fn called with a content
\* type that is, case ignored, none of the supported ones raise ValueError.
C10_UnsupportedRaisesValueError ==
    (result # NoResult /\ Lower(call.content_type) \notin Supported(call.module, call.hook))
        => result = Raise("ValueError")

====
